---- MODULE Spec2Model ----
(***************************************************************************)
(* Orders API (src/api/app.py): a FastAPI application over one in-memory   *)
(* dictionary ORDERS.  The model has the router (routes in registration    *)
(* order, first full match wins), the request validation of OrderCreate    *)
(* and of the Query parameters, the four handlers, and a thread-level      *)
(* view of the handlers for the threadpool that runs them.                 *)
(***************************************************************************)
EXTENDS Integers, Sequences, FiniteSets, TLC

(* ---------------- bounds ---------------- *)
MaxOrders == 2      \* number of values uuid4() can hand out
MaxTime == 2        \* number of distinct clock readings
MaxWorkers == 2     \* number of threadpool threads serving requests

(* ---------------- value universes ---------------- *)
UuidNames == <<"u1", "u2", "u3", "u4", "u5", "u6">>
UUIDs == {UuidNames[i] : i \in 1..MaxOrders}
Times == 1..MaxTime
Workers == 1..MaxWorkers
Emails == {"a@b.com"}
Products == {"sku_1"}
Quantities == {-1, 0, 1, 2}

VARIABLES
    ORDERS,             \* the dictionary: order id -> order document
    ENABLE_GET_CREATE,  \* the feature flag read when the module is loaded
    issued,             \* values uuid4() has returned so far
    request,            \* the request served last
    response,           \* the response sent last
    returned,           \* the records successful creates have returned
    creates,            \* how many creates have succeeded
    threads             \* per threadpool thread: the handler it is running

vars == <<ORDERS, ENABLE_GET_CREATE, issued, request, response, returned,
          creates, threads>>

(* ---------------- Python values ---------------- *)
None == [None |-> TRUE]
EmptyDict == <<>>
\* truthiness of `doc` in `if not doc`
Falsy(x) == x = None \/ x = EmptyDict

\* dict.get(key): the value, or None
OrdersGet(orders, key) == IF key \in DOMAIN orders THEN orders[key] ELSE None

\* variant: the document is filed under the customer's email
OrdersPut_ByEmail(orders, key, doc) ==
    [k \in DOMAIN orders \cup {doc.customer_email} |->
        IF k = doc.customer_email THEN doc ELSE orders[k]]

\* variant: the dictionary is rebuilt around the new document
OrdersPut_Replace(orders, key, doc) == [k \in {key} |-> doc]

\* orders[key] = doc
OrdersPut(orders, key, doc) ==
    [k \in DOMAIN orders \cup {key} |-> IF k = key THEN doc ELSE orders[k]]

\* variant: the identifier is the next index after the size of the store
uuid4_NextIndex(used) == {UuidNames[Cardinality(DOMAIN ORDERS) + 1]} \cap UUIDs

\* str(uuid4()): a value that uuid4 has not produced before
uuid4(used) == UUIDs \ used

\* datetime.utcnow().isoformat() + "Z"
IsoZ(t) == <<"T", t, "Z">>

(* ---------------- requests and responses ---------------- *)
EmailPart == {<<>>} \cup {[customer_email |-> e] : e \in Emails}
ProductPart == {<<>>} \cup {[product_id |-> p] : p \in Products}
QuantityPart == {<<>>} \cup {[quantity |-> q] : q \in Quantities}
\* a JSON body or a query string: any subset of the three fields
Params == {a @@ b @@ c : a \in EmailPart, b \in ProductPart, c \in QuantityPart}

FullParams == [customer_email |-> "a@b.com", product_id |-> "sku_1", quantity |-> 2]

Request(m, p, q) == [method |-> m, path |-> p, params |-> q]

\* The requests sent: every body to POST /orders, every query string to
\* GET /orders/create, and a sample of requests to the other paths.
Requests ==
    {Request("GET", <<>>, q) : q \in {<<>>, FullParams}}
        \cup {Request("POST", <<>>, <<>>), Request("GET", <<"orders">>, <<>>),
              Request("GET", <<"status">>, <<>>),
              Request("POST", <<"orders", "create">>, FullParams)}
        \cup {Request("POST", <<"orders">>, q) : q \in Params}
        \cup {Request("GET", <<"orders", "create">>, q) : q \in Params}
        \cup {Request("GET", <<"orders", x>>, <<>>) :
                  x \in UUIDs \cup {"does-not-exist"}}

Response(code, content) == [status_code |-> code, body |-> content]
HTTPException(code, text) == Response(code, [detail |-> text])
NoRequest == [method |-> "NONE", path |-> <<>>, params |-> <<>>]
NoResponse == Response(0, <<>>)

(* ---------------- models ---------------- *)
\* variant: quantity declared ge=0
OrderCreateErrors_Ge0(body) ==
    {<<f, "missing">> : f \in {"customer_email", "product_id"} \ DOMAIN body}
        \cup (IF "quantity" \in DOMAIN body /\ ~(body.quantity >= 0)
              THEN {<<"quantity", "greater_than_equal">>} ELSE {})

\* class OrderCreate: two required strings, quantity: int ge=1 default 1
OrderCreateErrors(body) ==
    {<<f, "missing">> : f \in {"customer_email", "product_id"} \ DOMAIN body}
        \cup (IF "quantity" \in DOMAIN body /\ ~(body.quantity >= 1)
              THEN {<<"quantity", "greater_than_equal">>} ELSE {})

\* variant: the quantity sent is dropped and the default used
OrderCreate_DefaultOnly(body) ==
    [customer_email |-> body.customer_email,
     product_id |-> body.product_id,
     quantity |-> 1]

OrderCreate(body) ==
    [customer_email |-> body.customer_email,
     product_id |-> body.product_id,
     quantity |-> IF "quantity" \in DOMAIN body THEN body.quantity ELSE 1]

\* the parameters of create_order_get: Query(...), Query(...), Query(1, ge=1)
QueryErrors(query) ==
    (IF "customer_email" \in DOMAIN query THEN {}
     ELSE {<<"customer_email", "missing">>})
        \cup (IF "product_id" \in DOMAIN query THEN {}
              ELSE {<<"product_id", "missing">>})
        \cup (IF "quantity" \in DOMAIN query /\ query.quantity < 1
              THEN {<<"quantity", "greater_than_equal">>} ELSE {})

QueryQuantity(query) ==
    IF "quantity" \in DOMAIN query THEN query.quantity ELSE 1

\* class OrderOut, applied as response_model: the six declared fields
OrderOutFields ==
    {"id", "status", "created_at", "customer_email", "product_id", "quantity"}
OrderOut(doc) == [f \in OrderOutFields |-> doc[f]]

(* ---------------- handlers ---------------- *)
\* Each handler yields the response and the dictionary it leaves behind.
Result(resp, orders) == [response |-> resp, orders |-> orders]

HealthBody == [ok |-> TRUE, service |-> "orders-api", version |-> "1.0"]

\* variant: the descriptor reports the number of stored orders
health_Count(orders) ==
    Result(Response(200, [ok |-> TRUE, service |-> "orders-api",
                          version |-> "1.0",
                          orders |-> Cardinality(DOMAIN orders)]), orders)

health(orders) == Result(Response(200, HealthBody), orders)

\* the dict literal of create_order
create_order_doc(payload, order_id, now) ==
    [id |-> order_id,
     status |-> "created",
     created_at |-> now,
     customer_email |-> payload.customer_email,
     product_id |-> payload.product_id,
     quantity |-> payload.quantity]

create_order(orders, payload, order_id, now) ==
    LET doc == create_order_doc(payload, order_id, now)
    IN Result(Response(200, OrderOut(doc)), OrdersPut(orders, order_id, doc))

\* variant: a missing order answers 200 with an empty body
get_order_reply_Silent(doc) ==
    IF Falsy(doc) THEN Response(200, EmptyDict)
    ELSE Response(200, OrderOut(doc))

\* get_order from the test of `doc` on: raise 404 or return the document
get_order_reply(doc) ==
    IF Falsy(doc) THEN HTTPException(404, "Order not found")
    ELSE Response(200, OrderOut(doc))

\* variant: the lookup uses the literal "order_id", not the parameter
get_order_LiteralKey(orders, order_id) ==
    Result(get_order_reply(OrdersGet(orders, "order_id")), orders)

get_order(orders, order_id) ==
    Result(get_order_reply(OrdersGet(orders, order_id)), orders)

\* the dict literal of create_order_get
create_order_get_doc(customer_email, product_id, quantity, order_id, now) ==
    [id |-> order_id,
     status |-> "created",
     created_at |-> now,
     customer_email |-> customer_email,
     product_id |-> product_id,
     quantity |-> quantity]

create_order_get(orders, customer_email, product_id, quantity, order_id, now) ==
    LET doc == create_order_get_doc(customer_email, product_id, quantity,
                                    order_id, now)
    IN Result(Response(200, OrderOut(doc)), OrdersPut(orders, order_id, doc))

(* ---------------- routing ---------------- *)
Route(m, p, e) == [method |-> m, path |-> p, endpoint |-> e]
IsParam(seg) == seg = "{order_id}"

\* variant: the alternate route is declared outside the `if`, ahead of the
\* parametrised route
app_routes_Unconditional(flag) ==
    <<Route("GET", <<>>, "health"),
      Route("POST", <<"orders">>, "create_order"),
      Route("GET", <<"orders", "create">>, "create_order_get"),
      Route("GET", <<"orders", "{order_id}">>, "get_order")>>

\* the decorators, in the order the module executes them
app_routes(flag) ==
    <<Route("GET", <<>>, "health"),
      Route("POST", <<"orders">>, "create_order"),
      Route("GET", <<"orders", "{order_id}">>, "get_order")>>
    \o (IF flag
        THEN <<Route("GET", <<"orders", "create">>, "create_order_get")>>
        ELSE <<>>)

PathMatches(pattern, path) ==
    /\ Len(pattern) = Len(path)
    /\ \A i \in 1..Len(pattern) : IsParam(pattern[i]) \/ pattern[i] = path[i]

\* The router: the first route whose path and method both match; failing
\* that, a route whose path alone matches answers 405; failing that, 404.
Dispatch(routes, req) ==
    LET full == {i \in 1..Len(routes) :
                    /\ PathMatches(routes[i].path, req.path)
                    /\ routes[i].method = req.method}
        partial == {i \in 1..Len(routes) : PathMatches(routes[i].path, req.path)}
        first(S) == CHOOSE i \in S : \A j \in S : i <= j
    IN IF full # {} THEN routes[first(full)].endpoint
       ELSE IF partial # {} THEN "method_not_allowed"
       ELSE "not_found"

Endpoint(req) == Dispatch(app_routes(ENABLE_GET_CREATE), req)

\* errors found in the request before the endpoint is called
RequestErrors(ep, req) ==
    IF ep = "create_order" THEN OrderCreateErrors(req.params)
    ELSE IF ep = "create_order_get" THEN QueryErrors(req.params)
    ELSE {}

\* the endpoint function runs and generates an order id
Generates(ep, req) ==
    /\ ep \in {"create_order", "create_order_get"}
    /\ RequestErrors(ep, req) = {}

\* what the application does with a request, given the uuid and clock values
\* the endpoint would obtain
Handle(orders, flag, req, order_id, now) ==
    LET ep == Dispatch(app_routes(flag), req)
    IN IF ep = "not_found" THEN Result(HTTPException(404, "Not Found"), orders)
       ELSE IF ep = "method_not_allowed"
       THEN Result(HTTPException(405, "Method Not Allowed"), orders)
       ELSE IF RequestErrors(ep, req) # {}
       THEN Result(Response(422, [detail |-> RequestErrors(ep, req)]), orders)
       ELSE IF ep = "health" THEN health(orders)
       ELSE IF ep = "create_order"
       THEN create_order(orders, OrderCreate(req.params), order_id, now)
       ELSE IF ep = "get_order" THEN get_order(orders, req.path[2])
       ELSE create_order_get(orders, req.params.customer_email,
                             req.params.product_id, QueryQuantity(req.params),
                             order_id, now)

(* ---------------- the application, one request at a time ---------------- *)
IdleThread == [pc |-> "idle"]

Init ==
    /\ ORDERS = <<>>
    /\ ENABLE_GET_CREATE = TRUE
    /\ issued = {}
    /\ request = NoRequest
    /\ response = NoResponse
    /\ returned = {}
    /\ creates = 0
    /\ threads = [w \in Workers |-> IdleThread]

\* a request that reaches an endpoint which creates an order
ServeCreate(req) ==
    /\ Generates(Endpoint(req), req)
    /\ \E order_id \in uuid4(issued), t \in Times :
          LET out == Handle(ORDERS, ENABLE_GET_CREATE, req, order_id, IsoZ(t))
          IN /\ ORDERS' = out.orders
             /\ response' = out.response
             /\ issued' = issued \cup {order_id}
             /\ returned' = returned \cup {out.response.body}
             /\ creates' = creates + 1
    /\ request' = req
    /\ UNCHANGED <<ENABLE_GET_CREATE, threads>>

\* any other request: no uuid is generated
ServeOther(req) ==
    /\ ~Generates(Endpoint(req), req)
    /\ LET out == Handle(ORDERS, ENABLE_GET_CREATE, req, None, None)
       IN /\ ORDERS' = out.orders
          /\ response' = out.response
    /\ request' = req
    /\ UNCHANGED <<ENABLE_GET_CREATE, issued, returned, creates, threads>>

Serve(req) == IF Generates(Endpoint(req), req) THEN ServeCreate(req)
              ELSE ServeOther(req)

\* GET / and anything else sent to the root path
RequestRoot == \E req \in Requests : req.path = <<>> /\ Serve(req)

\* POST /orders and anything else sent to /orders
RequestOrders == \E req \in Requests : req.path = <<"orders">> /\ Serve(req)

\* GET /orders/<segment>, /orders/create included
RequestOrdersItem ==
    \E req \in Requests : Len(req.path) = 2 /\ Serve(req)

\* a path no route declares
RequestUnknown == \E req \in Requests : req.path = <<"status">> /\ Serve(req)

Next == RequestRoot \/ RequestOrders \/ RequestOrdersItem \/ RequestUnknown

Spec == Init /\ [][Next]_vars

\* The same application started with either value of the flag: line 16
\* fixes True, and the if/else at the bottom of the module is what the flag
\* selects between.
InitFlag ==
    /\ ORDERS = <<>>
    /\ ENABLE_GET_CREATE \in BOOLEAN
    /\ issued = {}
    /\ request = NoRequest
    /\ response = NoResponse
    /\ returned = {}
    /\ creates = 0
    /\ threads = [w \in Workers |-> IdleThread]

SpecFlag == InitFlag /\ [][Next]_vars

(* ---------------- the handlers as the threadpool runs them -------------- *)
\* create_order, create_order_get and get_order are plain `def` endpoints, so
\* each call runs on a threadpool thread.  A thread's steps are split where
\* it touches ORDERS: one dictionary insert or one dictionary lookup per step.

\* the requests the threads serve: a create, and a get of each identifier
ThreadRequests ==
    {Request("POST", <<"orders">>, FullParams)}
        \cup {Request("GET", <<"orders", x>>, <<>>) : x \in UUIDs}

\* the document the endpoint reached by req builds
EndpointDoc(ep, req, order_id, now) ==
    IF ep = "create_order"
    THEN create_order_doc(OrderCreate(req.params), order_id, now)
    ELSE create_order_get_doc(req.params.customer_email, req.params.product_id,
                              QueryQuantity(req.params), order_id, now)

\* a create endpoint is entered and builds its document
EnterCreate(w) ==
    /\ threads[w].pc = "idle"
    /\ \E req \in ThreadRequests :
          /\ Generates(Endpoint(req), req)
          /\ \E order_id \in uuid4(issued), t \in Times :
                /\ threads' = [threads EXCEPT ![w] =
                      [pc |-> "put", req |-> req,
                       doc |-> EndpointDoc(Endpoint(req), req, order_id, IsoZ(t))]]
                /\ issued' = issued \cup {order_id}
    /\ UNCHANGED <<ORDERS, ENABLE_GET_CREATE, request, response, returned, creates>>

\* ORDERS[order_id] = doc
StoreOrder(w) ==
    /\ threads[w].pc = "put"
    /\ ORDERS' = OrdersPut(ORDERS, threads[w].doc.id, threads[w].doc)
    /\ threads' = [threads EXCEPT ![w].pc = "return"]
    /\ UNCHANGED <<ENABLE_GET_CREATE, issued, request, response, returned, creates>>

\* return doc
ReturnOrder(w) ==
    /\ threads[w].pc = "return"
    /\ request' = threads[w].req
    /\ response' = Response(200, OrderOut(threads[w].doc))
    /\ returned' = returned \cup {OrderOut(threads[w].doc)}
    /\ creates' = creates + 1
    /\ threads' = [threads EXCEPT ![w] = IdleThread]
    /\ UNCHANGED <<ORDERS, ENABLE_GET_CREATE, issued>>

\* get_order is entered
EnterGet(w) ==
    /\ threads[w].pc = "idle"
    /\ \E req \in ThreadRequests :
          /\ Endpoint(req) = "get_order"
          /\ threads' = [threads EXCEPT ![w] = [pc |-> "lookup", req |-> req]]
    /\ UNCHANGED <<ORDERS, ENABLE_GET_CREATE, issued, request, response,
                   returned, creates>>

\* doc = ORDERS.get(order_id)
LookupOrder(w) ==
    /\ threads[w].pc = "lookup"
    /\ threads' = [threads EXCEPT ![w] =
          [pc |-> "check", req |-> threads[w].req,
           doc |-> OrdersGet(ORDERS, threads[w].req.path[2])]]
    /\ UNCHANGED <<ORDERS, ENABLE_GET_CREATE, issued, request, response,
                   returned, creates>>

\* if not doc: raise HTTPException(404) else: return doc
ReplyGet(w) ==
    /\ threads[w].pc = "check"
    /\ request' = threads[w].req
    /\ response' = get_order_reply(threads[w].doc)
    /\ threads' = [threads EXCEPT ![w] = IdleThread]
    /\ UNCHANGED <<ORDERS, ENABLE_GET_CREATE, issued, returned, creates>>

NextThreads ==
    \E w \in Workers :
        \/ EnterCreate(w)
        \/ StoreOrder(w)
        \/ ReturnOrder(w)
        \/ EnterGet(w)
        \/ LookupOrder(w)
        \/ ReplyGet(w)

SpecThreads == Init /\ [][NextThreads]_vars

(* ---------------- properties ---------------- *)
IsPostOrders(req) == req.method = "POST" /\ req.path = <<"orders">>
IsGetRoot(req) == req.method = "GET" /\ req.path = <<>>
IsGetOrdersItem(req) ==
    req.method = "GET" /\ Len(req.path) = 2 /\ req.path[1] = "orders"
IsGetOrdersCreate(req) == req.method = "GET" /\ req.path = <<"orders", "create">>

\* inputs a create accepts: both strings present, quantity omitted or >= 1
ValidInput(p) ==
    /\ "customer_email" \in DOMAIN p
    /\ "product_id" \in DOMAIN p
    /\ ("quantity" \in DOMAIN p => p.quantity >= 1)

QuantityOrDefault(p) == IF "quantity" \in DOMAIN p THEN p.quantity ELSE 1

NotFoundReply == [status_code |-> 404, body |-> [detail |-> "Order not found"]]

\* C1: when POST /orders has just succeeded with record r, a GET
\* /orders/{r.id} served next answers 200 with a record equal to r in all
\* six fields.
C1_CreateThenGet ==
    [][(/\ IsPostOrders(request)
        /\ response.status_code = 200
        /\ IsGetOrdersItem(request')
        /\ request'.path[2] = response.body.id)
       => (/\ response'.status_code = 200
           /\ DOMAIN response'.body = OrderOutFields
           /\ \A f \in OrderOutFields : response'.body[f] = response.body[f])]_vars

C1_Witness ==
    /\ IsGetOrdersItem(request)
    /\ response.status_code = 200
    /\ response.body \in returned
    /\ request.path[2] = response.body.id

\* C2: with the alternate route enabled, GET /orders/create with valid query
\* parameters adds one order to the store and answers 200 with a record of
\* the six fields whose customer_email, product_id, quantity and status are
\* those POST /orders gives for the same inputs.
C2_GetCreateCreates ==
    [][(/\ ENABLE_GET_CREATE
        /\ IsGetOrdersCreate(request')
        /\ ValidInput(request'.params))
       => (/\ response'.status_code = 200
           /\ Cardinality(DOMAIN ORDERS') = Cardinality(DOMAIN ORDERS) + 1
           /\ DOMAIN response'.body = OrderOutFields
           /\ response'.body.customer_email = request'.params.customer_email
           /\ response'.body.product_id = request'.params.product_id
           /\ response'.body.quantity = QuantityOrDefault(request'.params)
           /\ response'.body.status = "created")]_vars

\* C3: GET /orders/{order_id} with an order_id that is no key of the store
\* answers 404 "Order not found" and leaves the store as it was.
C3_UnknownIdNotFound ==
    [][(IsGetOrdersItem(request') /\ request'.path[2] \notin DOMAIN ORDERS)
       => (response' = NotFoundReply /\ ORDERS' = ORDERS)]_vars

C3_Witness ==
    /\ IsGetOrdersItem(request)
    /\ request.path[2] \in UUIDs \ DOMAIN ORDERS
    /\ ORDERS # <<>>
    /\ response = NotFoundReply

\* C4: POST /orders with quantity 0 or negative, or without customer_email
\* or product_id, answers 422, stores nothing and allocates no identifier.
C4_InvalidCreateRejected ==
    [][(IsPostOrders(request') /\ ~ValidInput(request'.params))
       => (/\ response'.status_code = 422
           /\ ORDERS' = ORDERS
           /\ issued' = issued)]_vars

C4_Witness ==
    /\ IsPostOrders(request)
    /\ "quantity" \in DOMAIN request.params
    /\ request.params.quantity = 0
    /\ "customer_email" \in DOMAIN request.params
    /\ "product_id" \in DOMAIN request.params
    /\ response.status_code = 422
    /\ ORDERS # <<>>

\* C5: after N successful creates the N returned identifiers are pairwise
\* distinct, the store holds exactly N records, and each returned record is
\* still the one stored under its identifier.
C5_DistinctIds ==
    /\ Cardinality({r.id : r \in returned}) = creates
    /\ Cardinality(DOMAIN ORDERS) = creates
    /\ \A r \in returned : r.id \in DOMAIN ORDERS /\ OrderOut(ORDERS[r.id]) = r

C5_Witness == creates >= 2 /\ Cardinality(returned) = creates

\* C6: a stored order stays stored, under the same identifier, with every
\* field as it was and status "created", whatever request is served next.
C6_OrdersImmutable ==
    [][\A k \in DOMAIN ORDERS :
          /\ k \in DOMAIN ORDERS'
          /\ ORDERS'[k] = ORDERS[k]
          /\ ORDERS'[k].status = "created"]_vars

C6_Witness ==
    /\ Cardinality(DOMAIN ORDERS) >= 2
    /\ IsPostOrders(request)
    /\ response.status_code = 200

\* C7: a valid POST /orders returns a record whose quantity is the input
\* quantity, or 1 when it was omitted, whose status is "created" and whose
\* customer_email and product_id are the inputs.
C7_CreateEchoesInput ==
    [][(IsPostOrders(request') /\ ValidInput(request'.params))
       => (/\ response'.status_code = 200
           /\ response'.body.quantity = QuantityOrDefault(request'.params)
           /\ response'.body.status = "created"
           /\ response'.body.customer_email = request'.params.customer_email
           /\ response'.body.product_id = request'.params.product_id)]_vars

C7_Witness ==
    /\ IsPostOrders(request)
    /\ "quantity" \notin DOMAIN request.params
    /\ response.status_code = 200
    /\ response.body.quantity = 1

C9_HealthFixed ==
    [][IsGetRoot(request')
       => (/\ response' = [status_code |-> 200,
                           body |-> [ok |-> TRUE, service |-> "orders-api",
                                     version |-> "1.0"]]
           /\ ORDERS' = ORDERS)]_vars

C9_Witness ==
    /\ IsGetRoot(request)
    /\ request.params # <<>>
    /\ Cardinality(DOMAIN ORDERS) >= 2
    /\ response.status_code = 200

\* C10: under any interleaving of create and get threads no create is lost:
\* when no create is in flight the store holds, under its identifier, the
\* record every create returned, one record per create; and a get answers
\* either 404 "Order not found" or the complete record of the create that
\* stored it, never part of one.
CreateInFlight == \E w \in Workers : threads[w].pc \in {"put", "return"}

CompleteRecord(d) ==
    /\ DOMAIN d = OrderOutFields
    /\ d.status = "created"
    /\ d \in returned \cup {OrderOut(threads[w].doc) :
                               w \in {v \in Workers : threads[v].pc = "return"}}

C10_NoLostCreate ==
    /\ ~CreateInFlight
          => (/\ \A r \in returned :
                    r.id \in DOMAIN ORDERS /\ OrderOut(ORDERS[r.id]) = r
              /\ Cardinality(DOMAIN ORDERS) = creates)
    /\ IsGetOrdersItem(request)
          => \/ response = NotFoundReply
             \/ (/\ response.status_code = 200
                 /\ response.body.id = request.path[2]
                 /\ CompleteRecord(response.body))
    /\ \A w \in Workers :
          threads[w].pc = "check"
              => \/ threads[w].doc = None
                 \/ (/\ threads[w].doc.id = threads[w].req.path[2]
                     /\ CompleteRecord(threads[w].doc))

\* a get that read the store while the create of that order had inserted but
\* not yet returned, and another create already complete
C10_Witness ==
    /\ creates >= 1
    /\ \E w \in Workers, v \in Workers :
          /\ threads[w].pc = "check"
          /\ threads[w].doc # None
          /\ threads[v].pc = "return"
          /\ threads[v].doc.id = threads[w].doc.id

====
